---- MODULE Spec2Model ----
(***************************************************************************)
(* Model of the concurrent spiral-scan crawler of lemocracker (main.go):   *)
(* the orchestrator startDataCollection, the per-center worker spiralScan, *)
(* the API client fetchAreas and the lemobar_areas table written with      *)
(* INSERT OR IGNORE.                                                       *)
(*                                                                         *)
(* Coordinates are fixed-point integers in units of 1e-4 degree (the       *)
(* centers of main.go have 4 decimals, the step is 0.03 = 300 units); the  *)
(* request URL prints them with %f, i.e. rounded to 6 decimals, so the     *)
(* float64 rounding error of center + x*step never shows in a request.     *)
(*                                                                         *)
(* Time is a relative clock per worker: elapsed[w] is time.Since(startTime)*)
(* saturated at Config.Duration, sleepLeft[w] is what remains of the       *)
(* current time.Sleep.  Tick lets one time unit pass for everybody.        *)
(*                                                                         *)
(* A worker yields where spiralScan blocks or touches what it shares: at   *)
(* the two budget checks (they read the clock), during fetchAreas, at each *)
(* insertStmt.Exec and during time.Sleep.                                  *)
(*                                                                         *)
(* Spec is the program: startDataCollection over the first NumCenters      *)
(* cities with a configuration loadConfig/modifyConfig can produce.        *)
(* SpecWorker is one spiralScan call with any budgets (maxBlocks = 0       *)
(* included) against the API or a mock of it; SpecSpiral is one call with  *)
(* a point budget of MaxSpiral.                                            *)
(***************************************************************************)
EXTENDS Integers, Sequences, FiniteSets, TLC

\* ---------------------------------------------------------------- bounds
NumCenters == 3      \* centers launched by the program model (24 in main.go)
MaxBlocks == 1       \* largest Config.MaxBlocks of the program model
ScanDuration == 1    \* largest Config.Duration of the program model, in ticks
ScanInterval == 0    \* largest Config.Interval of the program model, in ticks
ScanRecords == 1     \* longest data.records array in the program model
MaxPoints == 4       \* largest Config.MaxBlocks of the single-worker model
MaxSpiral == 25      \* Config.MaxBlocks of the spiral model
MaxDuration == 3     \* largest Config.Duration, in ticks
MaxInterval == 2     \* largest Config.Interval, in ticks
MaxId == 2           \* area ids the API may return: 1..MaxId
NumVals == 2         \* distinct field-value tuples an area may carry
LiveCenters == 2    \* workers of the scan whose termination is checked
LiveBlocks == 2     \* largest point budget of that scan
LiveDuration == 2   \* largest time budget of that scan
LiveInterval == 1   \* largest interval of that scan
MaxRecords == 2      \* longest data.records array of one response

\* ------------------------------------------------------------- constants
step == 300

\* Mutant: the four directions in clockwise order.
dirs_Clockwise == << [dx |-> 1, dy |-> 0], [dx |-> 0, dy |-> -1],
                     [dx |-> -1, dy |-> 0], [dx |-> 0, dy |-> 1] >>

dirs == << [dx |-> 1, dy |-> 0], [dx |-> 0, dy |-> 1],
           [dx |-> -1, dy |-> 0], [dx |-> 0, dy |-> -1] >>

\* The first cities of the centers literal, as [lat, lng] in 1e-4 degree.
CityCenters ==
  << [lat |-> 399042, lng |-> 1164074], [lat |-> 312304, lng |-> 1214737],
     [lat |-> 231291, lng |-> 1132644], [lat |-> 225431, lng |-> 1140579],
     [lat |-> 302741, lng |-> 1201551], [lat |-> 320603, lng |-> 1187969] >>

Min(a, b) == IF a < b THEN a ELSE b
Max(a, b) == IF a > b THEN a ELSE b

\* ------------------------------------------------------------ data model
Ids == 1 .. MaxId
Vals == 1 .. NumVals

\* type Area: the id and, as one abstract value, its seven other fields.
Area == [id : Ids, val : Vals]

RecordLists == UNION { [1 .. n -> Area] : n \in 0 .. MaxRecords }

\* What the HTTP exchange of one fetchAreas call can come to.
HttpResponses ==
  { [kind |-> k, code |-> 0, records |-> << >>] : k \in {"transport_error", "bad_json"} }
  \cup { [kind |-> "json", code |-> c, records |-> rs] : c \in {200, 500}, rs \in RecordLists }

\* Mutant: the two coordinates of the URL swapped.
Request_Swapped(lat, lng, cfg) ==
  [longitude |-> lat, latitude |-> lng, authorization |-> cfg.authorization]

\* fetchAreas builds the URL with longitude first, then latitude.
Request(lat, lng, cfg) ==
  [longitude |-> lng, latitude |-> lat, authorization |-> cfg.authorization]

\* Mutant: the code field of the response is not looked at.
fetchAreas_IgnoreCode(resp) ==
  IF resp.kind = "transport_error"
    THEN [err |-> TRUE, areas |-> << >>]
    ELSE IF resp.kind = "bad_json"
      THEN [err |-> TRUE, areas |-> << >>]
      ELSE [err |-> FALSE, areas |-> resp.records]

\* fetchAreas: the result of one call, from the response of its one request.
fetchAreas(resp) ==
  IF resp.kind = "transport_error"
    THEN [err |-> TRUE, areas |-> << >>]
    ELSE IF resp.kind = "bad_json" \/ resp.code # 200
      THEN [err |-> TRUE, areas |-> << >>]
      ELSE [err |-> FALSE, areas |-> resp.records]

\* Mutant: a plain insert into a table without the primary key.
InsertOrIgnore_Blind(tbl, a) == tbl \cup {a}

\* Mutant: INSERT OR REPLACE.
InsertOrIgnore_Replace(tbl, a) == { r \in tbl : r.id # a.id } \cup {a}

\* INSERT OR IGNORE INTO lemobar_areas, area_id being the primary key.
InsertOrIgnore(tbl, a) ==
  IF \E r \in tbl : r.id = a.id THEN tbl ELSE tbl \cup {a}

VARIABLES
  api,         \* the responses the remote API may give (all of them, or a mock's)
  config,      \* globalConfig: authorization, interval, duration, maxBlocks
  menuInputs,  \* the configurations the entries at the configuration menu can give
  dbOpened,    \* sql.Open has been called
  centers,     \* the centers list of startDataCollection
  mainPc,      \* where the menu thread is: menu, returned, launch, wait, reported, killed
  launched,    \* number of centers the launch loop has gone through
  wg,          \* the sync.WaitGroup counter
  reported,    \* number of "all cities done" reports printed
  store,       \* rows of lemobar_areas
  pc,          \* per worker: idle, start, outer, inner, fetch, range, sleep, done, killed
  x, y, dirIdx, dist, i, j, scanned,   \* locals of spiralScan
  request,     \* the request in flight
  areas,       \* records of the current response still to insert
  fetchErr,    \* err of the current fetchAreas call
  elapsed,     \* time.Since(startTime), saturated at config.duration
  sleepLeft,   \* remainder of the current time.Sleep
  okLog, failLog, summaryLog, prepareLog,   \* log lines written, per worker
  \* history (not program state)
  queried,     \* per worker: the points at which API calls were issued
  returnedIds, \* ids contained in successful API responses
  ignored,     \* some insert met a row of its id holding other field values
  firstInsert, \* rows as first inserted
  execFailed,  \* some insertStmt.Exec returned an error
  lateCall,    \* some API call was issued after its worker's duration had elapsed
  sinceCall,   \* per worker: time since its last API call, saturated at config.interval
  clientOk,    \* every fetchAreas call failed on a transport error, an undecodable
               \* body or a code other than 200, and else returned the records
  paced,       \* every API call but a worker's first came a full interval after the one before
  lateExec,    \* some insertStmt.Exec ran after its worker's duration had elapsed
  dones        \* per worker: number of wg.Done calls

vars == << api, config, menuInputs, dbOpened, centers, mainPc, launched, wg, reported, store, pc,
           x, y, dirIdx, dist, i, j, scanned, request, areas, fetchErr,
           elapsed, sleepLeft, okLog, failLog, summaryLog, prepareLog,
           queried, returnedIds, ignored, firstInsert, execFailed, lateExec, lateCall, sinceCall, paced, clientOk, dones >>

orchVars == << api, config, menuInputs, dbOpened, centers, mainPc, launched, reported >>
spiralVars == << x, y, dirIdx, dist, i, j, scanned >>
logVars == << okLog, failLog, summaryLog, prepareLog >>
histVars == << queried, returnedIds, ignored, firstInsert, execFailed, lateExec, lateCall, sinceCall, paced, clientOk >>

Workers == DOMAIN centers

NoRequest == [longitude |-> 0, latitude |-> 0, authorization |-> ""]

InitWith(cs, cfg, rs, menu) ==
  /\ api = rs
  /\ config = cfg
  /\ menuInputs = menu
  /\ dbOpened = FALSE
  /\ centers = cs
  /\ mainPc = "menu"
  /\ launched = 0
  /\ wg = 0
  /\ reported = 0
  /\ store = {}
  /\ pc = [w \in DOMAIN cs |-> "idle"]
  /\ x = [w \in DOMAIN cs |-> 0]
  /\ y = [w \in DOMAIN cs |-> 0]
  /\ dirIdx = [w \in DOMAIN cs |-> 0]
  /\ dist = [w \in DOMAIN cs |-> 1]
  /\ i = [w \in DOMAIN cs |-> 0]
  /\ j = [w \in DOMAIN cs |-> 0]
  /\ scanned = [w \in DOMAIN cs |-> 0]
  /\ request = [w \in DOMAIN cs |-> NoRequest]
  /\ areas = [w \in DOMAIN cs |-> << >>]
  /\ fetchErr = [w \in DOMAIN cs |-> FALSE]
  /\ elapsed = [w \in DOMAIN cs |-> 0]
  /\ sleepLeft = [w \in DOMAIN cs |-> 0]
  /\ okLog = [w \in DOMAIN cs |-> 0]
  /\ failLog = [w \in DOMAIN cs |-> 0]
  /\ summaryLog = [w \in DOMAIN cs |-> 0]
  /\ prepareLog = [w \in DOMAIN cs |-> 0]
  /\ queried = [w \in DOMAIN cs |-> << >>]
  /\ returnedIds = {}
  /\ ignored = FALSE
  /\ firstInsert = {}
  /\ execFailed = FALSE
  /\ lateExec = FALSE
  /\ lateCall = FALSE
  /\ sinceCall = [w \in DOMAIN cs |-> 0]
  /\ paced = TRUE
  /\ clientOk = TRUE
  /\ dones = [w \in DOMAIN cs |-> 0]

\* Mock APIs: one that answers every call with the one record of id 1, and
\* one whose every call fails.
MockOne == { [kind |-> "json", code |-> 200, records |-> << [id |-> 1, val |-> 1] >>] }
MockFail == { r \in HttpResponses : fetchAreas(r).err }

Origin == << [lat |-> 0, lng |-> 0] >>

\* The configurations of the three models.
ProgramConfigs ==
  [authorization : {"", "token"}, interval : 0 .. ScanInterval,
   duration : 1 .. ScanDuration, maxBlocks : 1 .. MaxBlocks]

WorkerConfigs ==
  [authorization : {"token"}, interval : 0 .. MaxInterval,
   duration : 0 .. MaxDuration, maxBlocks : 0 .. MaxPoints]

SpiralConfigs ==
  [authorization : {"token"}, interval : 0 .. MaxInterval,
   duration : 1 .. MaxDuration, maxBlocks : {MaxSpiral}]

\* The program: loadConfig and modifyConfig keep MaxBlocks positive.
Init ==
  \E cfg \in ProgramConfigs :
    InitWith(SubSeq(CityCenters, 1, NumCenters), cfg,
             { r \in HttpResponses : Len(r.records) <= ScanRecords }, ProgramConfigs)

\* One spiralScan call on its own, from center (0,0), with any budgets,
\* against the real API or a mock.
InitWorker ==
  \E cfg \in WorkerConfigs, rs \in {HttpResponses, MockOne, MockFail} :
    InitWith(Origin, cfg, rs, WorkerConfigs)

\* One spiralScan call with a point budget that lets the spiral unfold.
InitSpiral ==
  \E cfg \in SpiralConfigs :
    InitWith(Origin, cfg,
             MockOne \cup { r \in HttpResponses : r.kind = "transport_error" }, SpiralConfigs)

\* ---------------------------------------------------------- orchestrator
\* Mutant: startDataCollection without the credential check.
StartDataCollection_NoAuthCheck ==
  /\ mainPc = "menu"
  /\ \E confirm \in BOOLEAN, opened \in BOOLEAN :
       IF ~confirm
         THEN mainPc' = "returned" /\ UNCHANGED dbOpened
         ELSE /\ dbOpened' = TRUE
              /\ mainPc' = IF opened THEN "launch" ELSE "returned"
  /\ UNCHANGED << api, config, menuInputs, centers, launched, wg, reported, store, pc,
                  request, areas, fetchErr, elapsed, sleepLeft, dones >>
  /\ UNCHANGED << spiralVars, logVars, histVars >>

\* startDataCollection up to the launch loop: the credential check, the
\* confirmation prompt, sql.Open and CREATE TABLE IF NOT EXISTS.  Every early
\* return leaves the menu thread at the "press enter" prompt of main.
StartDataCollection ==
  /\ mainPc = "menu"
  /\ IF config.authorization = ""
       THEN mainPc' = "returned" /\ UNCHANGED dbOpened
       ELSE \E confirm \in BOOLEAN, opened \in BOOLEAN :
              IF ~confirm
                THEN mainPc' = "returned" /\ UNCHANGED dbOpened
                ELSE /\ dbOpened' = TRUE
                     /\ mainPc' = IF opened THEN "launch" ELSE "returned"
  /\ UNCHANGED << api, config, menuInputs, centers, launched, wg, reported, store, pc,
                  request, areas, fetchErr, elapsed, sleepLeft, dones >>
  /\ UNCHANGED << spiralVars, logVars, histVars >>

\* The "press enter to continue" prompt of main is answered.
BackToMenu ==
  /\ mainPc = "returned"
  /\ mainPc' = "menu"
  /\ UNCHANGED << api, config, menuInputs, dbOpened, centers, launched, wg, reported,
                  store, pc, request, areas, fetchErr, elapsed, sleepLeft, dones >>
  /\ UNCHANGED << spiralVars, logVars, histVars >>

\* What one entry of the configuration menu may write: a non-empty
\* authorization, any interval, any duration, a positive maxBlocks.
Accepted(f, c) ==
  /\ f = "authorization" => c.authorization # ""
  /\ f = "maxBlocks" => c.maxBlocks > 0

\* Mutant: the configuration menu is served while a scan runs.
ModifyConfig_Unblocked ==
  /\ mainPc \in {"menu", "launch", "wait"}
  /\ \E c \in menuInputs, f \in {"authorization", "interval", "duration", "maxBlocks"} :
       /\ Accepted(f, c)
       /\ config' = [config EXCEPT ![f] = c[f]]
  /\ UNCHANGED << api, menuInputs, dbOpened, centers, mainPc, launched, wg, reported,
                  store, pc, request, areas, fetchErr, elapsed, sleepLeft, dones >>
  /\ UNCHANGED << spiralVars, logVars, histVars >>

\* modifyConfig, called from the menu loop of main: one field of globalConfig
\* is set from the user's entry.
ModifyConfig ==
  /\ mainPc = "menu"
  /\ \E c \in menuInputs, f \in {"authorization", "interval", "duration", "maxBlocks"} :
       /\ Accepted(f, c)
       /\ config' = [config EXCEPT ![f] = c[f]]
  /\ UNCHANGED << api, menuInputs, dbOpened, centers, mainPc, launched, wg, reported,
                  store, pc, request, areas, fetchErr, elapsed, sleepLeft, dones >>
  /\ UNCHANGED << spiralVars, logVars, histVars >>

\* One iteration of the launch loop: wg.Add(1); go spiralScan(...).
Launch ==
  /\ mainPc = "launch"
  /\ launched < Len(centers)
  /\ launched' = launched + 1
  /\ wg' = wg + 1
  /\ pc' = [pc EXCEPT ![launched + 1] = "start"]
  /\ mainPc' = IF launched + 1 = Len(centers) THEN "wait" ELSE "launch"
  /\ UNCHANGED << api, config, menuInputs, dbOpened, centers, reported, store, request, areas, fetchErr,
                  elapsed, sleepLeft, dones >>
  /\ UNCHANGED << spiralVars, logVars, histVars >>

\* wg.Wait() returns and the total elapsed time is printed.
WaitReturn ==
  /\ mainPc = "wait"
  /\ wg = 0
  /\ reported' = reported + 1
  /\ mainPc' = "reported"
  /\ UNCHANGED << api, config, menuInputs, dbOpened, centers, launched, wg, store, pc, request, areas, fetchErr,
                  elapsed, sleepLeft, dones >>
  /\ UNCHANGED << spiralVars, logVars, histVars >>

\* ---------------------------------------------------------------- worker
\* Mutant: spiralScan without its deferred wg.Done.
DeferredDone_NoSignal(w) ==
  /\ wg' = wg
  /\ dones' = [dones EXCEPT ![w] = @ + 1]

\* What a return of spiralScan does besides ending it: the deferred wg.Done().
DeferredDone(w) ==
  /\ wg' = wg - 1
  /\ dones' = [dones EXCEPT ![w] = @ + 1]

\* Mutant: the return after a failed db.Prepare skips wg.Done().
Prepare_NoDone(w) ==
  /\ pc[w] = "start"
  /\ \E ok \in BOOLEAN :
       IF ok
         THEN /\ pc' = [pc EXCEPT ![w] = "outer"]
              /\ UNCHANGED prepareLog
         ELSE /\ pc' = [pc EXCEPT ![w] = "done"]
              /\ prepareLog' = [prepareLog EXCEPT ![w] = @ + 1]
  /\ x' = [x EXCEPT ![w] = 0]
  /\ y' = [y EXCEPT ![w] = 0]
  /\ dirIdx' = [dirIdx EXCEPT ![w] = 0]
  /\ dist' = [dist EXCEPT ![w] = 1]
  /\ scanned' = [scanned EXCEPT ![w] = 0]
  /\ elapsed' = [elapsed EXCEPT ![w] = 0]
  /\ UNCHANGED << orchVars, wg, dones, store, i, j, request, areas, fetchErr, sleepLeft,
                  okLog, failLog, summaryLog, histVars >>

\* db.Prepare, and on success the initialisation of the locals.
Prepare(w) ==
  /\ pc[w] = "start"
  /\ \E ok \in BOOLEAN :
       IF ok
         THEN /\ pc' = [pc EXCEPT ![w] = "outer"]
              /\ UNCHANGED << wg, dones, prepareLog >>
         ELSE /\ pc' = [pc EXCEPT ![w] = "done"]
              /\ prepareLog' = [prepareLog EXCEPT ![w] = @ + 1]
              /\ DeferredDone(w)
  /\ x' = [x EXCEPT ![w] = 0]
  /\ y' = [y EXCEPT ![w] = 0]
  /\ dirIdx' = [dirIdx EXCEPT ![w] = 0]
  /\ dist' = [dist EXCEPT ![w] = 1]
  /\ scanned' = [scanned EXCEPT ![w] = 0]
  /\ elapsed' = [elapsed EXCEPT ![w] = 0]
  /\ UNCHANGED << orchVars, store, i, j, request, areas, fetchErr, sleepLeft,
                  okLog, failLog, summaryLog, histVars >>

\* The condition of the outer for loop.
OuterCond(w) == scanned[w] < config.maxBlocks /\ elapsed[w] < config.duration

\* Mutant: the point budget compared with > instead of >=.
BudgetSpent_OffByOne(w) == scanned[w] > config.maxBlocks \/ elapsed[w] >= config.duration

\* Mutant: the inner check looks at the point budget only.
BudgetSpent_NoTime(w) == scanned[w] >= config.maxBlocks

\* The budget check at the head of the innermost loop body.
BudgetSpent(w) == scanned[w] >= config.maxBlocks \/ elapsed[w] >= config.duration

\* The outer loop head: enter the two legs of this distance, or fall out of
\* the loop to the completion summary and return.
OuterCheck(w) ==
  /\ pc[w] = "outer"
  /\ IF OuterCond(w)
       THEN /\ i' = [i EXCEPT ![w] = 0]
            /\ j' = [j EXCEPT ![w] = 0]
            /\ pc' = [pc EXCEPT ![w] = "inner"]
            /\ UNCHANGED << wg, dones, summaryLog >>
       ELSE /\ summaryLog' = [summaryLog EXCEPT ![w] = @ + 1]
            /\ pc' = [pc EXCEPT ![w] = "done"]
            /\ DeferredDone(w)
            /\ UNCHANGED << i, j >>
  /\ UNCHANGED << orchVars, store, x, y, dirIdx, dist, scanned, request, areas,
                  fetchErr, elapsed, sleepLeft, okLog, failLog, prepareLog, histVars >>

\* The coordinate queried at offset (x, y).
Lng(w) == centers[w].lng + x[w] * step
Lat(w) == centers[w].lat + y[w] * step

\* The innermost loop body up to the request of fetchAreas: the budget check,
\* then the coordinate and the call.  Nothing blocks between the check and
\* the call, so they are one step: the call is issued at the time checked.
InnerCheck(w) ==
  /\ pc[w] = "inner"
  /\ IF BudgetSpent(w)
       THEN /\ pc' = [pc EXCEPT ![w] = "done"]
            /\ DeferredDone(w)
            /\ UNCHANGED << request, queried, lateCall, sinceCall, paced >>
       ELSE /\ request' = [request EXCEPT ![w] = Request(Lat(w), Lng(w), config)]
            /\ queried' = [queried EXCEPT ![w] =
                 Append(@, [x |-> x[w], y |-> y[w], req |-> Request(Lat(w), Lng(w), config)])]
            /\ lateCall' = (lateCall \/ elapsed[w] >= config.duration)
            /\ paced' = (paced /\ (queried[w] = << >> \/ sinceCall[w] >= config.interval))
            /\ sinceCall' = [sinceCall EXCEPT ![w] = 0]
            /\ pc' = [pc EXCEPT ![w] = "fetch"]
            /\ UNCHANGED << wg, dones >>
  /\ UNCHANGED << orchVars, store, spiralVars, areas, fetchErr, elapsed, sleepLeft,
                  logVars, returnedIds, ignored, firstInsert, execFailed, lateExec, clientOk >>

\* fetchAreas returns.
Response(w) ==
  /\ pc[w] = "fetch"
  /\ \E resp \in api :
       LET r == fetchAreas(resp) IN
         /\ fetchErr' = [fetchErr EXCEPT ![w] = r.err]
         /\ areas' = [areas EXCEPT ![w] = r.areas]
         /\ returnedIds' = returnedIds \cup { r.areas[k].id : k \in DOMAIN r.areas }
         /\ clientOk' = (/\ clientOk
                         /\ r.err <=> (\/ resp.kind \in {"transport_error", "bad_json"}
                                       \/ resp.code # 200)
                         /\ ~r.err => r.areas = resp.records)
  /\ pc' = [pc EXCEPT ![w] = "range"]
  /\ UNCHANGED << orchVars, wg, store, spiralVars, request, elapsed, sleepLeft,
                  logVars, queried, ignored, firstInsert, execFailed, lateExec, lateCall, sinceCall, paced, dones >>

\* One iteration of the range loop: insertStmt.Exec, its error dropped.
Exec(w) ==
  /\ pc[w] = "range"
  /\ ~fetchErr[w]
  /\ areas[w] # << >>
  /\ \E ok \in BOOLEAN :
       IF ok
         THEN /\ store' = InsertOrIgnore(store, Head(areas[w]))
              /\ firstInsert' = IF \E r \in firstInsert : r.id = Head(areas[w]).id
                                  THEN firstInsert
                                  ELSE firstInsert \cup {Head(areas[w])}
              /\ ignored' = (ignored \/ \E r \in store :
                                r.id = Head(areas[w]).id /\ r.val # Head(areas[w]).val)
              /\ UNCHANGED execFailed
         ELSE /\ execFailed' = TRUE
              /\ UNCHANGED << store, firstInsert, ignored >>
  /\ areas' = [areas EXCEPT ![w] = Tail(@)]
  /\ lateExec' = (lateExec \/ elapsed[w] >= config.duration)
  /\ UNCHANGED << orchVars, wg, pc, spiralVars, request, fetchErr, elapsed, sleepLeft,
                  logVars, queried, returnedIds, lateCall, sinceCall, paced, clientOk, dones >>

\* Mutant: a failed call ends the worker.
EndStep_Abort(w) ==
  /\ pc[w] = "range"
  /\ fetchErr[w] \/ areas[w] = << >>
  /\ IF fetchErr[w]
       THEN /\ failLog' = [failLog EXCEPT ![w] = @ + 1]
            /\ pc' = [pc EXCEPT ![w] = "done"]
            /\ DeferredDone(w)
            /\ UNCHANGED << okLog, x, y, scanned, sleepLeft >>
       ELSE /\ okLog' = [okLog EXCEPT ![w] = @ + 1]
            /\ x' = [x EXCEPT ![w] = @ + dirs[dirIdx[w] + 1].dx]
            /\ y' = [y EXCEPT ![w] = @ + dirs[dirIdx[w] + 1].dy]
            /\ scanned' = [scanned EXCEPT ![w] = @ + 1]
            /\ sleepLeft' = [sleepLeft EXCEPT ![w] = Max(config.interval, 0)]
            /\ pc' = [pc EXCEPT ![w] = "sleep"]
            /\ UNCHANGED << failLog, wg, dones >>
  /\ UNCHANGED << orchVars, store, dirIdx, dist, i, j, request, areas, fetchErr,
                  elapsed, summaryLog, prepareLog, histVars >>

\* Mutant: time.Sleep is called in the success branch only.
EndStep_NoSleepOnFail(w) ==
  /\ pc[w] = "range"
  /\ fetchErr[w] \/ areas[w] = << >>
  /\ IF fetchErr[w]
       THEN /\ failLog' = [failLog EXCEPT ![w] = @ + 1]
            /\ sleepLeft' = [sleepLeft EXCEPT ![w] = 0]
            /\ UNCHANGED okLog
       ELSE /\ okLog' = [okLog EXCEPT ![w] = @ + 1]
            /\ sleepLeft' = [sleepLeft EXCEPT ![w] = Max(config.interval, 0)]
            /\ UNCHANGED failLog
  /\ x' = [x EXCEPT ![w] = @ + dirs[dirIdx[w] + 1].dx]
  /\ y' = [y EXCEPT ![w] = @ + dirs[dirIdx[w] + 1].dy]
  /\ scanned' = [scanned EXCEPT ![w] = @ + 1]
  /\ pc' = [pc EXCEPT ![w] = "sleep"]
  /\ UNCHANGED << orchVars, wg, store, dirIdx, dist, i, j, request, areas, fetchErr,
                  elapsed, summaryLog, prepareLog, histVars, dones >>

\* Mutant: scanned is one counter shared by the workers.
EndStep_SharedScanned(w) ==
  /\ pc[w] = "range"
  /\ fetchErr[w] \/ areas[w] = << >>
  /\ IF fetchErr[w]
       THEN /\ failLog' = [failLog EXCEPT ![w] = @ + 1]
            /\ UNCHANGED okLog
       ELSE /\ okLog' = [okLog EXCEPT ![w] = @ + 1]
            /\ UNCHANGED failLog
  /\ x' = [x EXCEPT ![w] = @ + dirs[dirIdx[w] + 1].dx]
  /\ y' = [y EXCEPT ![w] = @ + dirs[dirIdx[w] + 1].dy]
  /\ scanned' = [v \in Workers |-> scanned[v] + 1]
  /\ sleepLeft' = [sleepLeft EXCEPT ![w] = Max(config.interval, 0)]
  /\ pc' = [pc EXCEPT ![w] = "sleep"]
  /\ UNCHANGED << orchVars, wg, store, dirIdx, dist, i, j, request, areas, fetchErr,
                  elapsed, summaryLog, prepareLog, histVars, dones >>

\* Mutant: a failed point is tried again.
EndStep_RetryOnFail(w) ==
  /\ pc[w] = "range"
  /\ fetchErr[w] \/ areas[w] = << >>
  /\ IF fetchErr[w]
       THEN /\ failLog' = [failLog EXCEPT ![w] = @ + 1]
            /\ UNCHANGED << okLog, x, y, scanned >>
       ELSE /\ okLog' = [okLog EXCEPT ![w] = @ + 1]
            /\ x' = [x EXCEPT ![w] = @ + dirs[dirIdx[w] + 1].dx]
            /\ y' = [y EXCEPT ![w] = @ + dirs[dirIdx[w] + 1].dy]
            /\ scanned' = [scanned EXCEPT ![w] = @ + 1]
            /\ UNCHANGED failLog
  /\ sleepLeft' = [sleepLeft EXCEPT ![w] = Max(config.interval, 0)]
  /\ pc' = [pc EXCEPT ![w] = "sleep"]
  /\ UNCHANGED << orchVars, wg, store, dirIdx, dist, i, j, request, areas, fetchErr,
                  elapsed, summaryLog, prepareLog, histVars, dones >>

\* The rest of the loop body: the log line of the point, the move along the
\* current direction, scanned++ and the call of time.Sleep(config.Interval).
EndStep(w) ==
  /\ pc[w] = "range"
  /\ fetchErr[w] \/ areas[w] = << >>
  /\ IF fetchErr[w]
       THEN /\ failLog' = [failLog EXCEPT ![w] = @ + 1]
            /\ UNCHANGED okLog
       ELSE /\ okLog' = [okLog EXCEPT ![w] = @ + 1]
            /\ UNCHANGED failLog
  /\ x' = [x EXCEPT ![w] = @ + dirs[dirIdx[w] + 1].dx]
  /\ y' = [y EXCEPT ![w] = @ + dirs[dirIdx[w] + 1].dy]
  /\ scanned' = [scanned EXCEPT ![w] = @ + 1]
  /\ sleepLeft' = [sleepLeft EXCEPT ![w] = Max(config.interval, 0)]
  /\ pc' = [pc EXCEPT ![w] = "sleep"]
  /\ UNCHANGED << orchVars, wg, store, dirIdx, dist, i, j, request, areas, fetchErr,
                  elapsed, summaryLog, prepareLog, histVars, dones >>

\* Mutant: the leg length never grows.
Wake_NoGrow(w) ==
  /\ pc[w] = "sleep"
  /\ sleepLeft[w] = 0
  /\ IF j[w] + 1 < dist[w]
       THEN /\ j' = [j EXCEPT ![w] = @ + 1]
            /\ pc' = [pc EXCEPT ![w] = "inner"]
            /\ UNCHANGED << i, dirIdx >>
       ELSE /\ dirIdx' = [dirIdx EXCEPT ![w] = (@ + 1) % 4]
            /\ IF i[w] + 1 < 2
                 THEN /\ i' = [i EXCEPT ![w] = @ + 1]
                      /\ j' = [j EXCEPT ![w] = 0]
                      /\ pc' = [pc EXCEPT ![w] = "inner"]
                 ELSE /\ pc' = [pc EXCEPT ![w] = "outer"]
                      /\ UNCHANGED << i, j >>
  /\ UNCHANGED << orchVars, wg, store, x, y, dist, scanned, request, areas, fetchErr,
                  elapsed, sleepLeft, logVars, histVars, dones >>

\* time.Sleep returns; the loop counters move on to the next loop head.
Wake(w) ==
  /\ pc[w] = "sleep"
  /\ sleepLeft[w] = 0
  /\ IF j[w] + 1 < dist[w]
       THEN /\ j' = [j EXCEPT ![w] = @ + 1]
            /\ pc' = [pc EXCEPT ![w] = "inner"]
            /\ UNCHANGED << i, dirIdx, dist >>
       ELSE /\ dirIdx' = [dirIdx EXCEPT ![w] = (@ + 1) % 4]
            /\ IF i[w] + 1 < 2
                 THEN /\ i' = [i EXCEPT ![w] = @ + 1]
                      /\ j' = [j EXCEPT ![w] = 0]
                      /\ pc' = [pc EXCEPT ![w] = "inner"]
                      /\ UNCHANGED dist
                 ELSE /\ dist' = [dist EXCEPT ![w] = @ + 1]
                      /\ pc' = [pc EXCEPT ![w] = "outer"]
                      /\ UNCHANGED << i, j >>
  /\ UNCHANGED << orchVars, wg, store, x, y, scanned, request, areas, fetchErr,
                  elapsed, sleepLeft, logVars, histVars, dones >>

\* ------------------------------------------------------------------ time
Timed(w) == pc[w] \in {"outer", "inner", "fetch", "range", "sleep"}

\* One unit of wall-clock time passes.
Tick ==
  /\ \E w \in Workers : Timed(w)
  /\ elapsed' = [w \in Workers |->
       IF Timed(w) THEN Min(elapsed[w] + 1, Max(config.duration, 0)) ELSE elapsed[w]]
  /\ sleepLeft' = [w \in Workers |-> Max(sleepLeft[w] - 1, 0)]
  /\ sinceCall' = [w \in Workers |->
       IF Timed(w) /\ queried[w] # << >>
         THEN Min(sinceCall[w] + 1, Max(config.interval, 0)) ELSE sinceCall[w]]
  /\ UNCHANGED << orchVars, wg, store, pc, spiralVars, request, areas, fetchErr,
                  logVars, queried, returnedIds, ignored, firstInsert, execFailed, lateExec,
                  lateCall, paced, clientOk, dones >>

Next ==
  \/ StartDataCollection
  \/ BackToMenu
  \/ ModifyConfig
  \/ Launch
  \/ WaitReturn
  \/ Tick
  \/ \E w \in Workers : Prepare(w)
  \/ \E w \in Workers : OuterCheck(w)
  \/ \E w \in Workers : InnerCheck(w)
  \/ \E w \in Workers : Response(w)
  \/ \E w \in Workers : Exec(w)
  \/ \E w \in Workers : EndStep(w)
  \/ \E w \in Workers : Wake(w)

Spec == Init /\ [][Next]_vars

SpecWorker == InitWorker /\ [][Next]_vars

SpecSpiral == InitSpiral /\ [][Next]_vars

\* The scheduling the liveness of a scan rests on: every goroutine that can
\* run does run, every HTTP exchange ends (the client has an 8 s timeout),
\* every Exec returns, every time.Sleep ends, and time passes.
Fairness ==
  /\ WF_vars(Launch)
  /\ WF_vars(WaitReturn)
  /\ WF_vars(Tick)
  /\ \A w \in 1 .. LiveCenters :
       /\ WF_vars(Prepare(w))
       /\ WF_vars(OuterCheck(w))
       /\ WF_vars(InnerCheck(w))
       /\ WF_vars(Response(w))
       /\ WF_vars(Exec(w))
       /\ WF_vars(EndStep(w))
       /\ WF_vars(Wake(w))

\* A scan of LiveCenters cities whose sleeps take time.
LiveConfigs ==
  [authorization : {"", "token"}, interval : 0 .. LiveInterval,
   duration : 1 .. LiveDuration, maxBlocks : 1 .. LiveBlocks]

InitLive ==
  \E cfg \in LiveConfigs :
    InitWith(SubSeq(CityCenters, 1, LiveCenters), cfg,
             MockOne \cup { r \in HttpResponses : r.kind = "transport_error" }, LiveConfigs)

SpecScan == InitLive /\ [][Next]_vars

SpecLive == SpecScan /\ Fairness

\* Ctrl+C during the collection, the one way the program offers to abort it:
\* no handler is installed, so the process ends with its goroutines wherever
\* they are.  The rows already inserted stay in the database file.
Interrupt ==
  /\ mainPc \in {"launch", "wait"}
  /\ mainPc' = "killed"
  /\ pc' = [w \in Workers |-> IF pc[w] \in {"idle", "done"} THEN pc[w] ELSE "killed"]
  /\ UNCHANGED << api, config, menuInputs, dbOpened, centers, launched, wg, reported,
                  store, request, areas, fetchErr, elapsed, sleepLeft, dones >>
  /\ UNCHANGED << spiralVars, logVars, histVars >>

NextInterrupt == Next \/ Interrupt

SpecInterrupt == Init /\ [][NextInterrupt]_vars

\* ============================================================== properties
Offset(p) == << p.x, p.y >>

Spiral12 == << << 0, 0 >>, << 1, 0 >>, << 1, 1 >>, << 0, 1 >>, << -1, 1 >>, << -1, 0 >>,
               << -1, -1 >>, << 0, -1 >>, << 1, -1 >>, << 2, -1 >>, << 2, 0 >>, << 2, 1 >> >>

AllDone == \A w \in Workers : pc[w] = "done"

StoreIds == { r.id : r \in store }

\* C1: the grid offsets of a worker's 1st to 12th API calls are, in order,
\* (0,0),(1,0),(1,1),(0,1),(-1,1),(-1,0),(-1,-1),(0,-1),(1,-1),(2,-1),(2,0),(2,1).
C1_First12Offsets ==
  \A w \in Workers : \A k \in DOMAIN queried[w] :
    k <= Len(Spiral12) => Offset(queried[w][k]) = Spiral12[k]

C1_Witness == \E w \in Workers : Len(queried[w]) >= Len(Spiral12)

\* C2: no grid offset is produced twice by the same worker.
C2_OffsetsDistinct ==
  \A w \in Workers : \A k1, k2 \in DOMAIN queried[w] :
    k1 # k2 => Offset(queried[w][k1]) # Offset(queried[w][k2])

C2_Witness == \E w \in Workers : Len(queried[w]) = MaxSpiral /\ pc[w] = "done"

\* C3: under every interleaving of the workers the store never holds two rows
\* of one id, and, the store having taken every write it was given, once all
\* workers have terminated every id of a successful response has a row.
C3_NoDuplicateNoLostWrite ==
  /\ \A r1, r2 \in store : r1.id = r2.id => r1 = r2
  /\ (AllDone /\ ~execFailed) => returnedIds \subseteq StoreIds

C3_Witness ==
  /\ AllDone /\ ~execFailed
  /\ \E w1, w2 \in Workers : w1 # w2 /\ okLog[w1] >= 1 /\ okLog[w2] >= 1
  /\ ignored
  /\ Cardinality(store) >= 2

\* C4: the row of an id holds the field values of the first insert of that
\* id; rows are only ever added, never changed or removed.
C4_FirstInsertKept == store = firstInsert

C4_Witness ==
  /\ AllDone /\ ~execFailed
  /\ ignored
  /\ Cardinality(store) >= 2

\* C5: a worker never issues more API calls than maxBlocks, and with
\* maxBlocks = 0 it never gets past the loop head: no call, no sleep.
C5_PointBudget ==
  \A w \in Workers :
    /\ Len(queried[w]) <= config.maxBlocks
    /\ config.maxBlocks = 0 => pc[w] \in {"idle", "start", "outer", "done"}

C5_Witness ==
  \E w \in Workers : config.maxBlocks = 0 /\ pc[w] = "done" /\ summaryLog[w] = 1

\* C6: no API call is issued once the duration has elapsed, and a worker that
\* has terminated has left no record of a response unwritten.
C6_DurationBudget ==
  /\ ~lateCall
  /\ \A w \in Workers : pc[w] = "done" => areas[w] = << >>

C6_Witness ==
  \E w \in Workers : pc[w] = "done" /\ lateExec /\ store # {} /\ scanned[w] < config.maxBlocks

\* C7: from center (0,0) with maxBlocks = 4 and an API answering every call
\* with the record of id 1, the worker queries (0,0),(0.03,0),(0.03,0.03),
\* (0,0.03) as (lng,lat), in this order, and the store ends with one row.
Scenario7 ==
  << [longitude |-> 0, latitude |-> 0], [longitude |-> 300, latitude |-> 0],
     [longitude |-> 300, latitude |-> 300], [longitude |-> 0, latitude |-> 300] >>

C7_FourPoints ==
  (api = MockOne /\ centers = Origin /\ config.maxBlocks = Len(Scenario7)) =>
    \A w \in Workers :
      /\ \A k \in DOMAIN queried[w] :
           /\ k <= Len(Scenario7)
           /\ queried[w][k].req.longitude = Scenario7[k].longitude
           /\ queried[w][k].req.latitude = Scenario7[k].latitude
      /\ (pc[w] = "done" /\ scanned[w] = config.maxBlocks /\ ~execFailed) =>
           /\ Len(queried[w]) = Len(Scenario7)
           /\ Cardinality(store) = 1
           /\ StoreIds = {1}

C7_Witness ==
  /\ api = MockOne /\ centers = Origin /\ config.maxBlocks = Len(Scenario7)
  /\ \E w \in Workers : pc[w] = "done" /\ scanned[w] = config.maxBlocks /\ ~execFailed

\* C8: when every API call fails, no row is written, every scanned point has
\* exactly one failure log entry, and the worker ends on a spent budget only.
C8_AllCallsFail ==
  api = MockFail =>
    /\ store = {}
    /\ \A w \in Workers :
         /\ failLog[w] = scanned[w]
         /\ okLog[w] = 0
         /\ (pc[w] = "done" /\ prepareLog[w] = 0) =>
              (scanned[w] >= config.maxBlocks \/ elapsed[w] >= config.duration)

C8_Witness ==
  api = MockFail /\ \E w \in Workers : pc[w] = "done" /\ failLog[w] >= 2

\* C9: between two consecutive API calls of one worker the full interval
\* elapses, whether the earlier call succeeded or failed.
C9_Paced == paced

C9_Witness ==
  \E w \in Workers :
    config.interval >= 2 /\ Len(queried[w]) >= 2 /\ failLog[w] >= 1

\* C10: one worker is launched per center, the completion report is printed
\* only when every worker has terminated, and a worker calls wg.Done exactly
\* once, on whichever path it ends.
C10_Join ==
  /\ reported >= 1 => AllDone
  /\ mainPc \in {"wait", "reported"} =>
       (launched = Len(centers) /\ \A w \in Workers : pc[w] # "idle")
  /\ wg = Cardinality({ w \in Workers : pc[w] \notin {"idle", "done"} })
  /\ \A w \in Workers : dones[w] = (IF pc[w] = "done" THEN 1 ELSE 0)

C10_Witness ==
  /\ reported = 1
  /\ \E w \in Workers : prepareLog[w] = 1
  /\ \E w \in Workers : summaryLog[w] = 1
  /\ \E w \in Workers : pc[w] = "done" /\ prepareLog[w] = 0 /\ summaryLog[w] = 0

\* The variables of worker w that are its own: the locals of its spiralScan
\* call, its position in the code, its clock and its log lines.
Local(w) ==
  << x[w], y[w], dirIdx[w], dist[w], i[w], j[w], scanned[w], pc[w], request[w],
     areas[w], fetchErr[w], elapsed[w], sleepLeft[w], okLog[w], failLog[w],
     summaryLog[w], prepareLog[w], dones[w] >>

WorkerStep(w) ==
  \/ Prepare(w) \/ OuterCheck(w) \/ InnerCheck(w) \/ Response(w)
  \/ Exec(w) \/ EndStep(w) \/ Wake(w)

\* C11: a step of one worker, successful or failed, leaves the spiral
\* position, direction, leg length, scanned count and running or terminated
\* status of every other worker as they were, and leaves the menu thread where
\* it is; of the program's data it can change only its own and the rows of
\* the store (beside them, the counter of the join).
C11_Isolated ==
  [][\A w \in Workers :
       WorkerStep(w) =>
         /\ \A v \in Workers \ {w} : Local(v)' = Local(v)
         /\ UNCHANGED << orchVars >>]_vars

C11_Witness ==
  \E w, v \in Workers :
    w # v /\ failLog[w] >= 1 /\ okLog[v] >= 1 /\ pc[v] \notin {"idle", "done"}

\* C12: while the authorization is empty no scan has started: a request for
\* one returns to the menu with no worker launched, no API call made, and the
\* store neither opened nor written.
C12_NoCredentialNoScan ==
  config.authorization = "" =>
    /\ mainPc \in {"menu", "returned"}
    /\ launched = 0 /\ wg = 0
    /\ \A w \in Workers : pc[w] = "idle" /\ queried[w] = << >>
    /\ ~dbOpened
    /\ store = {}

C12_Witness == config.authorization = "" /\ mainPc = "returned"

\* C13: every worker that has terminated after a scan (its insert statement
\* was prepared) has written its completion summary exactly once.
C13_SummaryOnce ==
  \A w \in Workers : pc[w] = "done" /\ prepareLog[w] = 0 => summaryLog[w] = 1

\* C14: every launched worker eventually terminates, after at most maxBlocks
\* steps, and the join eventually returns, under the fairness of the scan.
C14_Terminates ==
  /\ \A w \in 1 .. LiveCenters : [](scanned[w] <= config.maxBlocks)
  /\ \A w \in 1 .. LiveCenters : (pc[w] # "idle") ~> (pc[w] = "done")
  /\ (mainPc = "launch") ~> (mainPc = "reported")

C14_Witness ==
  /\ mainPc = "reported"
  /\ \E w \in Workers : scanned[w] = config.maxBlocks /\ elapsed[w] < config.duration
  /\ \E w \in Workers : scanned[w] < config.maxBlocks /\ elapsed[w] >= config.duration

\* C15: a worker whose insert statement the store refused is not ended by
\* that: it does not terminate while both of its budgets have room left.
C15_PersistenceFailureNotFatal ==
  \A w \in Workers :
    prepareLog[w] >= 1 =>
      ~(pc[w] = "done" /\ scanned[w] < config.maxBlocks /\ elapsed[w] < config.duration)

\* C16: every fetchAreas call made one exchange and returned a failure exactly
\* when the transport failed, the body was not JSON or the code was not 200,
\* and the records of the response, possibly none, otherwise; a failure
\* carries no records.
C16_ClientOutcome ==
  /\ clientOk
  /\ \A w \in Workers : fetchErr[w] => areas[w] = << >>

C16_Witness ==
  /\ api = HttpResponses
  /\ \E w \in Workers : failLog[w] >= 1 /\ okLog[w] >= 1
  /\ \E w \in Workers : pc[w] = "range" /\ ~fetchErr[w] /\ areas[w] # << >>

Abs(n) == IF n < 0 THEN -n ELSE n

InFlight(w) == pc[w] \in {"fetch", "range"}

\* C17: every API call, successful or failed, takes one budget slot and one
\* spiral position: scanned counts the calls made (the one in flight is
\* counted when its step ends), each call has one log line, consecutive
\* calls are one offset apart, and no point is queried twice.
C17_OneSlotPerCall ==
  \A w \in Workers :
    /\ Len(queried[w]) = scanned[w] + (IF InFlight(w) THEN 1 ELSE 0)
    /\ okLog[w] + failLog[w] = scanned[w]
    /\ \A k \in 1 .. Len(queried[w]) - 1 :
         Abs(queried[w][k + 1].x - queried[w][k].x)
           + Abs(queried[w][k + 1].y - queried[w][k].y) = 1
    /\ \A k, m \in 1 .. Len(queried[w]) :
         k # m => queried[w][k].req # queried[w][m].req
    /\ ~InFlight(w) => \A k \in 1 .. Len(queried[w]) :
         << queried[w][k].x, queried[w][k].y >> # << x[w], y[w] >>

C17_Witness ==
  \E w \in Workers :
    /\ failLog[w] >= 1 /\ okLog[w] >= 1
    /\ Len(queried[w]) = scanned[w] + 1
    /\ scanned[w] >= 2

\* C18: a cancellation raised during the collection cuts no worker off: every
\* running worker stops at its next check and ends by its own return.
C18_GracefulStop == \A w \in Workers : pc[w] # "killed"

\* C19: globalConfig is written only while the menu thread is at the menu
\* and no worker is running, so every request of a scan carries the
\* authorization the configuration holds.
C19_ConfigStable ==
  /\ [][config' # config =>
          mainPc = "menu" /\ \A w \in Workers : pc[w] \in {"idle", "done"}]_vars
  /\ [](\A w \in Workers : \A k \in 1 .. Len(queried[w]) :
          queried[w][k].req.authorization = config.authorization)

C19_Witness ==
  /\ mainPc = "wait"
  /\ \E w, v \in Workers :
       /\ pc[w] = "done" /\ queried[w] # << >>
       /\ pc[v] = "fetch" /\ request[v].authorization = config.authorization

====
